---- MODULE Spec2Model ----
(***************************************************************************)
(* Multi-tenant material inventory API (Express + Prisma + PostgreSQL).    *)
(*                                                                         *)
(* The store is the four tables of prisma/migrations/.../migration.sql.    *)
(* Every HTTP request is served by one of NumClients concurrent request    *)
(* contexts.  JavaScript runs the code between two awaits without          *)
(* interruption and the store runs one query (or one prisma.$transaction   *)
(* batch) atomically, so requests interleave at the awaits only.           *)
(*                                                                         *)
(* One action is one query of a handler together with the synchronous      *)
(* code that follows it up to the next query or to the response.  The      *)
(* stretch that receives a request (tenantAuthMiddleware, the role check,  *)
(* the body validation) is one action with the handler's first query: the  *)
(* middleware reads the Tenant and User tables only, whose rows no route   *)
(* changes or removes (POST /tenants only inserts rows), so what its two    *)
(* reads found still holds at the moment of the first query, and a refusal *)
(* rests on its last read alone.                                           *)
(*                                                                         *)
(* res holds the response a step sends, with the request it answers, until *)
(* the step Finish; it is the observable output of that step, and no other *)
(* step starts while it is shown.                                          *)
(*                                                                         *)
(* Material and Transaction ids are the positions of the rows in creation  *)
(* order (createdAt order).  deletedAt is {} for NULL and {t} for time t.   *)
(* Quantities are DOUBLE PRECISION in the store; the model draws them from *)
(* small integers, on which double arithmetic is exact.  The optional name *)
(* and unit filters of GET /materials are left out: they only narrow the   *)
(* rows of the asking tenant that are listed.  A rejection of a store call *)
(* outside a try block (the count of createMaterial) is left out.          *)
(*                                                                         *)
(* Specifications: Spec (the ledger of one tenant, NumClients concurrent   *)
(* requests), SpecAccess (every tenant-scoped route under every identity,  *)
(* one request at a time), SpecPlan (the catalogue up to MaxPlanMaterials  *)
(* materials, one request at a time), SpecPlanRace (the catalogue of the   *)
(* FREE tenant, concurrent requests), SpecNames (material names of two     *)
(* tenants, concurrent requests), SpecTenancy (every route, POST /tenants  *)
(* included, one request at a time), SpecParallel (movements on several    *)
(* materials, concurrent requests).                                        *)
(***************************************************************************)
EXTENDS Integers, Sequences, FiniteSets, TLC

VARIABLES
    tenants,       \* table Tenant:      id -> [name, plan]
    users,         \* table User:        id -> [tenantId, email, role]
    materials,     \* table Material:    rows in creation order, id = position
    transactions,  \* table Transaction: rows in commit order, id = position
    clock,         \* the wall clock read by new Date()
    pc,            \* per request context: the await the handler is suspended at
    req,           \* per request context: the HTTP request being served
    ctx,           \* per request context: req.tenant / req.user set by the middleware
    loc,           \* per request context: the handler's local variables
    res            \* the response sent by the step just taken, with its request

db   == <<tenants, users, materials, transactions, clock>>
vars == <<tenants, users, materials, transactions, clock, pc, req, ctx, loc, res>>

----------------------------------------------------------------------------
(* Bounds of the model *)

NumClients == 2
NumNames == 1
MaxQty == 2
MaxTxns == 3
MaxClock == 2
MaxPlanMaterials == 7
MaxTenants == 3
MaxMovedMaterials == 2

(* Program constants *)

MAX_FREE_MATERIALS == 5
NameMin == 1
NameMax == 100
UnitMin == 1
UnitMax == 20
RecentTake == 10
TenantNameMin == 3

----------------------------------------------------------------------------
(* Input alphabets *)

Clients == 1..NumClients

AllNames == <<"bolt", "nut", "gear", "pipe", "wire", "rod", "cap", "pin", "cog", "hook">>
Names    == {AllNames[i] : i \in 1..NumNames}
NameInputs == Names \cup {""}

Units == {"kg"}

TxnTypes == {"IN", "OUT"}

\* request bodies of POST /materials/:id/transactions (quantity 0 is malformed)
TxnBodies == [type : TxnTypes, quantity : 0..MaxQty]

\* ids a request may name: every id the store can hand out, and one it never does
MaxId    == 2 * NumNames + 1
IdInputs == 1..MaxId

NoReq == [op |-> "none"]
NoCtx == [tenantId |-> "", plan |-> "", role |-> ""]
NoLoc == [k |-> "none"]
NoRes == [status |-> 0]

----------------------------------------------------------------------------
(* The store *)

\* CREATE TABLE "Tenant"
IsTenantRow(r) == r.name \in STRING /\ r.plan \in {"FREE", "PRO"}

\* CREATE TABLE "User"
IsUserRow(r) ==
    r.tenantId \in DOMAIN tenants /\ r.email \in STRING /\ r.role \in {"ADMIN", "USER"}

\* CREATE TABLE "Material"
IsMaterialRow(r) ==
    /\ r.tenantId \in DOMAIN tenants
    /\ r.name \in STRING /\ r.unit \in STRING
    /\ r.currentStock \in Int
    /\ r.deletedAt \subseteq Nat /\ Cardinality(r.deletedAt) <= 1

\* CREATE TABLE "Transaction"
IsTransactionRow(r) ==
    /\ r.tenantId \in DOMAIN tenants
    /\ r.materialId \in 1..Len(materials)
    /\ r.type \in TxnTypes
    /\ r.quantity \in Int /\ r.preTransactionStock \in Int

\* the schema of the store and the shape of the request contexts
TypeOK ==
    /\ \A t \in DOMAIN tenants : IsTenantRow(tenants[t])
    /\ \A u \in DOMAIN users : IsUserRow(users[u])
    /\ \A m \in 1..Len(materials) : IsMaterialRow(materials[m])
    /\ \A t \in 1..Len(transactions) : IsTransactionRow(transactions[t])
    /\ clock \in Nat
    /\ pc \in [Clients -> {"idle", "cm_create", "ct_commit", "sd_update", "an_in", "an_out",
                         "tn_create"}]
    /\ \A c \in Clients : (pc[c] = "idle") = (req[c] = NoReq)
    /\ \A c \in Clients : pc[c] = "idle" => ctx[c] = NoCtx
    /\ \A c \in Clients : pc[c] \notin {"idle", "tn_create"} => ctx[c] # NoCtx
    /\ \A c \in Clients : pc[c] = "idle" => loc[c] = NoLoc
    /\ res # NoRes => res.body.status \in {200, 201, 400, 401, 403, 404, 409, 500}

MaterialIds == 1..Len(materials)
TxnIds      == 1..Len(transactions)

IsDeleted(m) == materials[m].deletedAt # {}

\* mutant: the lookup by id alone, without the tenantId filter
VisibleToAnyTenant(tenantId, id) == id \in MaterialIds /\ ~IsDeleted(id)

\* mutant: the lookup without the deletedAt filter
VisibleThoughDeleted(tenantId, id) ==
    id \in MaterialIds /\ materials[id].tenantId = tenantId

\* where: { id, tenantId, deletedAt: null }
Visible(tenantId, id) ==
    id \in MaterialIds /\ materials[id].tenantId = tenantId /\ ~IsDeleted(id)

\* mutant: the list and the count without the deletedAt filter
MaterialsThoughDeleted(tenantId) ==
    {m \in MaterialIds : materials[m].tenantId = tenantId}

\* where: { tenantId, deletedAt: null }
ActiveMaterials(tenantId) == {m \in MaterialIds : Visible(tenantId, m)}

Signed(t) == IF t.type = "IN" THEN t.quantity ELSE 0 - t.quantity

RECURSIVE SumQuantity(_)
SumQuantity(S) ==
    IF S = {} THEN 0
    ELSE LET t == CHOOSE x \in S : TRUE
         IN  transactions[t].quantity + SumQuantity(S \ {t})

\* orderBy: { createdAt: 'desc' }: ids are handed out in creation order
RECURSIVE Desc(_)
Desc(S) ==
    IF S = {} THEN << >>
    ELSE LET top == CHOOSE x \in S : \A y \in S : y <= x
         IN  <<top>> \o Desc(S \ {top})

Take(s, n) == SubSeq(s, 1, IF Len(s) < n THEN Len(s) ELSE n)

WithId(rows, id) == [id |-> id, row |-> rows[id]]

----------------------------------------------------------------------------
(* Responses *)

AuthenticationRequired == [status |-> 401, error |-> "Authentication Required"]
TenantNotFound         == [status |-> 404, error |-> "Tenant Not Found"]
UserAccessDenied       == [status |-> 403, error |-> "User Access Denied"]
AuthorizationRequired  == [status |-> 403, error |-> "Authorization Required"]
ValidationError        == [status |-> 400, error |-> "Validation Error"]
PlanLimitExceeded      == [status |-> 403, error |-> "Plan Limit Exceeded"]
PlanRestricted         == [status |-> 403, error |-> "Plan Restricted"]
InternalServerError    == [status |-> 500, error |-> "Internal Server Error"]
NotFoundForTenant ==
    [status |-> 404, error |-> "Not Found",
     message |-> "Material not found or does not belong to your tenant."]
NotFoundOrDeleted ==
    [status |-> 404, error |-> "Not Found",
     message |-> "Material not found or already deleted."]
Conflict(name) == [status |-> 409, error |-> "Conflict", name |-> name]
InsufficientStock(pre, unit, quantity) ==
    [status |-> 400, error |-> "Insufficient Stock",
     available |-> pre, unit |-> unit, requested |-> quantity]

----------------------------------------------------------------------------
(* Request contexts *)

\* request context c is suspended at `at` and the event loop is free to resume it
At(c, at) == pc[c] = at /\ res = NoRes

Reply(c, q, body) ==
    /\ pc'  = [pc  EXCEPT ![c] = "idle"]
    /\ req' = [req EXCEPT ![c] = NoReq]
    /\ ctx' = [ctx EXCEPT ![c] = NoCtx]
    /\ loc' = [loc EXCEPT ![c] = NoLoc]
    /\ res' = [req |-> q, body |-> body]

Suspend(c, q, at, context, locals) ==
    /\ pc'  = [pc  EXCEPT ![c] = at]
    /\ req' = [req EXCEPT ![c] = q]
    /\ ctx' = [ctx EXCEPT ![c] = context]
    /\ loc' = [loc EXCEPT ![c] = locals]
    /\ res' = NoRes

----------------------------------------------------------------------------
(* middleware/tenant-auth.js *)

\* mutant: the user looked up by id alone, without the tenantId filter
TenantAuthAnyTenantUser(q) ==
    IF q.tenant = "" \/ q.user = "" THEN AuthenticationRequired
    ELSE IF q.tenant \notin DOMAIN tenants THEN TenantNotFound
    ELSE IF q.user \notin DOMAIN users THEN UserAccessDenied
    ELSE [status |-> 0, error |-> "next"]

\* what tenantAuthMiddleware answers, or "next" when it calls next()
TenantAuth(q) ==
    IF q.tenant = "" \/ q.user = "" THEN AuthenticationRequired
    ELSE IF q.tenant \notin DOMAIN tenants THEN TenantNotFound
    ELSE IF ~(q.user \in DOMAIN users /\ users[q.user].tenantId = q.tenant)
         THEN UserAccessDenied
    ELSE [status |-> 0, error |-> "next"]

\* mutant: req.tenant attached with the PRO plan whatever the Tenant row says
AttachedAsPro(q) ==
    [tenantId |-> q.tenant, plan |-> "PRO", role |-> users[q.user].role]

\* req.tenant and req.user as the middleware attaches them
Attached(q) ==
    [tenantId |-> q.tenant, plan |-> tenants[q.tenant].plan, role |-> users[q.user].role]

\* TRUE when roleCheckMiddleware(requiredRole) denies the request
RoleDenied(requiredRole, userRole) == requiredRole = "ADMIN" /\ userRole # "ADMIN"

\* mutant: the DELETE route registered without roleCheckMiddleware
RequiredRoleOnCreateOnly(op) == IF op = "createMaterial" THEN "ADMIN" ELSE "NONE"

\* routes.js: the role each route passes to roleCheckMiddleware ("NONE": no role check)
RequiredRole(op) ==
    IF op \in {"createMaterial", "softDeleteMaterial"} THEN "ADMIN" ELSE "NONE"

\* The middleware chain of a route up to the handler: TRUE when the handler runs.
\* Otherwise the request is answered here and nothing else happens.
Admitted(q) ==
    /\ TenantAuth(q).error = "next"
    /\ ~RoleDenied(RequiredRole(q.op), users[q.user].role)

Refused(c, q) ==
    /\ At(c, "idle") /\ ~Admitted(q)
    /\ Reply(c, q, IF TenantAuth(q).error # "next" THEN TenantAuth(q)
                   ELSE AuthorizationRequired)
    /\ UNCHANGED db

----------------------------------------------------------------------------
(* controllers/material.controller.js *)

\* createMaterialSchema
ValidMaterialBody(q) ==
    /\ Len(q.name) >= NameMin /\ Len(q.name) <= NameMax
    /\ Len(q.unit) >= UnitMin /\ Len(q.unit) <= UnitMax

\* mutant: quantity validated as non-negative instead of positive
ValidTransactionBodyAllowingZero(q) == q.type \in TxnTypes /\ q.quantity >= 0

\* createTransactionSchema
ValidTransactionBody(q) == q.type \in TxnTypes /\ q.quantity > 0

\* mutant: the limit compared with > instead of >=
PlanLimitReachedStrictly(plan, materialCount) ==
    plan = "FREE" /\ materialCount > MAX_FREE_MATERIALS

\* the FREE plan limit check of createMaterial
PlanLimitReached(plan, materialCount) ==
    plan = "FREE" /\ materialCount >= MAX_FREE_MATERIALS

\* POST /materials, up to the await of prisma.material.create
CreateMaterial(c, q) ==
    /\ At(c, "idle") /\ q.op = "createMaterial" /\ Admitted(q)
    /\ IF ~ValidMaterialBody(q)
         THEN Reply(c, q, ValidationError)
       ELSE IF PlanLimitReached(Attached(q).plan, Cardinality(ActiveMaterials(q.tenant)))
         THEN Reply(c, q, PlanLimitExceeded)
       ELSE Suspend(c, q, "cm_create", Attached(q), NoLoc)
    /\ UNCHANGED db

\* mutant: the unique index restricted to the rows that are not soft-deleted
NameTakenAmongLive(tenantId, name) ==
    \E m \in MaterialIds :
        /\ materials[m].tenantId = tenantId /\ materials[m].name = name
        /\ materials[m].deletedAt = {}

\* unique index Material_tenantId_name_key
NameTaken(tenantId, name) ==
    \E m \in MaterialIds : materials[m].tenantId = tenantId /\ materials[m].name = name

NewMaterial(tenantId, name, unit) ==
    [tenantId |-> tenantId, name |-> name, unit |-> unit,
     currentStock |-> 0, deletedAt |-> {}]

\* prisma.material.create resolves or rejects with P2002
CreateMaterialInsert(c) ==
    /\ At(c, "cm_create")
    /\ IF NameTaken(ctx[c].tenantId, req[c].name)
         THEN /\ Reply(c, req[c], Conflict(req[c].name))
              /\ UNCHANGED db
         ELSE /\ materials' = Append(materials,
                      NewMaterial(ctx[c].tenantId, req[c].name, req[c].unit))
              /\ Reply(c, req[c], [status |-> 201, error |-> "",
                                   material |-> WithId(materials', Len(materials'))])
              /\ UNCHANGED <<tenants, users, transactions, clock>>

\* GET /materials (without the optional name and unit filters)
ListMaterials(c, q) ==
    /\ At(c, "idle") /\ q.op = "listMaterials" /\ Admitted(q)
    /\ LET ids == Desc(ActiveMaterials(q.tenant))
       IN  Reply(c, q, [status |-> 200, error |-> "",
                        materials |-> [i \in DOMAIN ids |-> WithId(materials, ids[i])]])
    /\ UNCHANGED db

\* include: { transactions: { orderBy: { createdAt: 'desc' }, take: 10 } }
RecentTransactions(id) ==
    LET ids == Take(Desc({t \in TxnIds : transactions[t].materialId = id}), RecentTake)
    IN  [i \in DOMAIN ids |-> WithId(transactions, ids[i])]

\* GET /materials/:id
GetMaterialById(c, q) ==
    /\ At(c, "idle") /\ q.op = "getMaterialById" /\ Admitted(q)
    /\ IF ~Visible(q.tenant, q.id)
         THEN Reply(c, q, NotFoundForTenant)
         ELSE Reply(c, q, [status |-> 200, error |-> "",
                           material |-> WithId(materials, q.id),
                           transactions |-> RecentTransactions(q.id)])
    /\ UNCHANGED db

\* requests suspended at the await of prisma.$transaction
Committing == {c \in Clients : pc[c] = "ct_commit"}

\* mutant: the comparison of the negative-stock check reversed
InsufficientReversed(preTransactionStock, quantity) == preTransactionStock > quantity

\* the negative-stock check of an OUT movement
Insufficient(preTransactionStock, quantity) == preTransactionStock < quantity

\* mutant: the quantity added whatever the type
NewStockAlwaysAdding(type, preTransactionStock, quantity) == preTransactionStock + quantity

\* newStock as createTransaction computes it
NewStock(type, preTransactionStock, quantity) ==
    IF type = "IN" THEN preTransactionStock + quantity
    ELSE preTransactionStock - quantity

\* POST /materials/:id/transactions, up to the await of prisma.$transaction
CreateTransaction(c, q) ==
    /\ At(c, "idle") /\ q.op = "createTransaction" /\ Admitted(q)
    /\ Len(transactions) + Cardinality(Committing) < MaxTxns
    /\ IF ~ValidTransactionBody(q)
         THEN Reply(c, q, ValidationError)
       ELSE IF ~Visible(q.tenant, q.id)
         THEN Reply(c, q, NotFoundForTenant)
       ELSE LET material == materials[q.id]
                preTransactionStock == material.currentStock
            IN  IF q.type # "IN" /\ Insufficient(preTransactionStock, q.quantity)
                  THEN Reply(c, q, InsufficientStock(preTransactionStock,
                                                     material.unit, q.quantity))
                  ELSE Suspend(c, q, "ct_commit", Attached(q),
                               [preTransactionStock |-> preTransactionStock,
                                newStock |-> NewStock(q.type, preTransactionStock,
                                                      q.quantity)])
    /\ UNCHANGED db

\* mutant: the two writes sent one after the other, and the insert lost
CommitTransactionStockOnly(c) ==
    /\ At(c, "ct_commit")
    /\ materials' = [materials EXCEPT ![req[c].id].currentStock = loc[c].newStock]
    /\ Reply(c, req[c], InternalServerError)
    /\ UNCHANGED <<tenants, users, transactions, clock>>

\* mutant: the stock update filtered by tenantId instead of id
CommitTransactionUpdatingTenantRows(c) ==
    /\ At(c, "ct_commit")
    /\ materials' = [m \in DOMAIN materials |->
                       IF materials[m].tenantId = ctx[c].tenantId
                         THEN [materials[m] EXCEPT !.currentStock = loc[c].newStock]
                         ELSE materials[m]]
    /\ transactions' = Append(transactions,
           [tenantId |-> ctx[c].tenantId, materialId |-> req[c].id,
            type |-> req[c].type, quantity |-> req[c].quantity,
            preTransactionStock |-> loc[c].preTransactionStock])
    /\ Reply(c, req[c],
             [status |-> 201, error |-> "",
              material |-> [id |-> req[c].id,
                            currentStock |-> materials'[req[c].id].currentStock],
              transaction |-> WithId(transactions', Len(transactions'))])
    /\ UNCHANGED <<tenants, users, clock>>

\* prisma.$transaction([material.update, transaction.create]) commits
CommitTransaction(c) ==
    /\ At(c, "ct_commit")
    /\ materials' = [materials EXCEPT ![req[c].id].currentStock = loc[c].newStock]
    /\ transactions' = Append(transactions,
           [tenantId |-> ctx[c].tenantId, materialId |-> req[c].id,
            type |-> req[c].type, quantity |-> req[c].quantity,
            preTransactionStock |-> loc[c].preTransactionStock])
    /\ Reply(c, req[c],
             [status |-> 201, error |-> "",
              material |-> [id |-> req[c].id,
                            currentStock |-> materials'[req[c].id].currentStock],
              transaction |-> WithId(transactions', Len(transactions'))])
    /\ UNCHANGED <<tenants, users, clock>>

\* DELETE /materials/:id, up to the await of prisma.material.update;
\* new Date() is evaluated when the update is issued
SoftDeleteMaterial(c, q) ==
    /\ At(c, "idle") /\ q.op = "softDeleteMaterial" /\ Admitted(q)
    /\ clock < MaxClock
    /\ IF ~Visible(q.tenant, q.id)
         THEN /\ Reply(c, q, NotFoundOrDeleted)
              /\ UNCHANGED db
         ELSE /\ clock' = clock + 1
              /\ Suspend(c, q, "sd_update", Attached(q), [deletedAt |-> clock'])
              /\ UNCHANGED <<tenants, users, materials, transactions>>

\* mutant: the update of the soft delete also resets the stock
SoftDeleteUpdateResettingStock(c) ==
    /\ At(c, "sd_update")
    /\ materials' = [materials EXCEPT ![req[c].id].deletedAt = {loc[c].deletedAt},
                                      ![req[c].id].currentStock = 0]
    /\ Reply(c, req[c], [status |-> 200, error |-> "",
                         name |-> materials'[req[c].id].name,
                         id |-> req[c].id,
                         deletedAt |-> materials'[req[c].id].deletedAt])
    /\ UNCHANGED <<tenants, users, transactions, clock>>

\* prisma.material.update({ where: { id }, data: { deletedAt } }) resolves
SoftDeleteUpdate(c) ==
    /\ At(c, "sd_update")
    /\ materials' = [materials EXCEPT ![req[c].id].deletedAt = {loc[c].deletedAt}]
    /\ Reply(c, req[c], [status |-> 200, error |-> "",
                         name |-> materials'[req[c].id].name,
                         id |-> req[c].id,
                         deletedAt |-> materials'[req[c].id].deletedAt])
    /\ UNCHANGED <<tenants, users, transactions, clock>>

\* a store call inside a try block rejects: the handler's catch answers 500;
\* a rejected prisma.$transaction has rolled both of its writes back
StoreFailure(c) ==
    /\ \E at \in {"cm_create", "ct_commit", "sd_update", "an_in", "an_out",
                   "tn_create"} : At(c, at)
    /\ Reply(c, req[c], InternalServerError)
    /\ UNCHANGED db

----------------------------------------------------------------------------
(* controllers/analytics.controller.js *)

TenantTransactions(tenantId, type) ==
    {t \in TxnIds : transactions[t].tenantId = tenantId /\ transactions[t].type = type}

\* GET /analytics/summary, up to the await of the first aggregate
GetAnalyticsSummary(c, q) ==
    /\ At(c, "idle") /\ q.op = "getAnalyticsSummary" /\ Admitted(q)
    /\ IF Attached(q).plan # "PRO"
         THEN Reply(c, q, PlanRestricted)
         ELSE Suspend(c, q, "an_in", Attached(q),
                      [materialCount |-> Cardinality(ActiveMaterials(q.tenant))])
    /\ UNCHANGED db

\* totalIn resolves
AnalyticsTotalIn(c) ==
    /\ At(c, "an_in")
    /\ Suspend(c, req[c], "an_out", ctx[c],
               [materialCount |-> loc[c].materialCount,
                totalQuantityIn |->
                    SumQuantity(TenantTransactions(ctx[c].tenantId, "IN"))])
    /\ UNCHANGED db

\* totalOut resolves
AnalyticsTotalOut(c) ==
    /\ At(c, "an_out")
    /\ LET totalQuantityOut == SumQuantity(TenantTransactions(ctx[c].tenantId, "OUT"))
       IN  Reply(c, req[c],
                 [status |-> 200, error |-> "",
                  tenantId |-> ctx[c].tenantId,
                  materialCount |-> loc[c].materialCount,
                  totalQuantityIn |-> loc[c].totalQuantityIn,
                  totalQuantityOut |-> totalQuantityOut,
                  netStockMovement |-> loc[c].totalQuantityIn - totalQuantityOut])
    /\ UNCHANGED db

----------------------------------------------------------------------------
(* controllers/tenant.controller.js *)

\* ids the store hands out to Tenant and User rows, in the order of creation
TenantIdPool == <<"T1", "T2", "T9", "T8", "T7">>
UserIdPool   == <<"U1", "U2", "U3", "U9", "U8", "U7">>

\* strings z.string().email() rejects, among the inputs of the model
MalformedEmails == {"root"}

\* tenantSchema: plan is optional and defaults to FREE ("" stands for no plan given)
ParsedPlan(plan) == IF plan = "" THEN "FREE" ELSE plan

\* tenantSchema and userSchema
ValidTenantBody(q) ==
    /\ Len(q.name) >= TenantNameMin
    /\ ParsedPlan(q.plan) \in {"FREE", "PRO"}
    /\ q.email \notin MalformedEmails
    /\ Len(q.adminName) >= TenantNameMin

TenantConflict(target) == [status |-> 409, error |-> "Conflict", target |-> target]

\* requests suspended at the await of prisma.tenant.create
CreatingTenant == {c \in Clients : pc[c] = "tn_create"}

\* POST /tenants, up to the await of prisma.tenant.create (no middleware)
CreateTenant(c, q) ==
    /\ At(c, "idle") /\ q.op = "createTenant"
    /\ Cardinality(DOMAIN tenants) + Cardinality(CreatingTenant) < MaxTenants
    /\ IF ~ValidTenantBody(q)
         THEN Reply(c, q, ValidationError)
         ELSE Suspend(c, q, "tn_create", NoCtx, NoLoc)
    /\ UNCHANGED db

\* unique indexes Tenant_name_key and User_email_key
TenantNameTaken(name) == \E t \in DOMAIN tenants : tenants[t].name = name
EmailTaken(email) == \E u \in DOMAIN users : users[u].email = email

\* prisma.tenant.create with the nested user create resolves or rejects with P2002
CreateTenantInsert(c) ==
    /\ At(c, "tn_create")
    /\ IF TenantNameTaken(req[c].name)
         THEN Reply(c, req[c], TenantConflict("name")) /\ UNCHANGED db
       ELSE IF EmailTaken(req[c].email)
         THEN Reply(c, req[c], TenantConflict("email")) /\ UNCHANGED db
       ELSE LET tenantId    == TenantIdPool[Cardinality(DOMAIN tenants) + 1]
                adminUserId == UserIdPool[Cardinality(DOMAIN users) + 1]
            IN  /\ tenants' = tenants @@
                       (tenantId :> [name |-> req[c].name,
                                     plan |-> ParsedPlan(req[c].plan)])
                /\ users' = users @@
                       (adminUserId :> [tenantId |-> tenantId, email |-> req[c].email,
                                        role |-> "ADMIN"])
                /\ Reply(c, req[c],
                         [status |-> 201, error |-> "",
                          tenantId |-> tenantId, adminUserId |-> adminUserId,
                          tenant |-> [name |-> tenants'[tenantId].name,
                                      plan |-> tenants'[tenantId].plan]])
                /\ UNCHANGED <<materials, transactions, clock>>

----------------------------------------------------------------------------
(* Requests *)

\* Tenant-ID / User-ID header pairs: the three identities of the seeded store,
\* a missing header, an unknown tenant, and a user of another tenant
Identities ==
    { [tenant |-> "T1", user |-> "U1"], [tenant |-> "T1", user |-> "U2"],
      [tenant |-> "T2", user |-> "U3"],
      [tenant |-> "",   user |-> "U1"], [tenant |-> "T9", user |-> "U1"],
      [tenant |-> "T2", user |-> "U1"] }

CreateMaterialRequests ==
    { [op |-> "createMaterial", tenant |-> h.tenant, user |-> h.user,
       name |-> n, unit |-> u] : h \in Identities, n \in NameInputs, u \in Units }
ListMaterialsRequests ==
    { [op |-> "listMaterials", tenant |-> h.tenant, user |-> h.user] : h \in Identities }
GetMaterialByIdRequests ==
    { [op |-> "getMaterialById", tenant |-> h.tenant, user |-> h.user, id |-> i] :
        h \in Identities, i \in IdInputs }
CreateTransactionRequests ==
    { [op |-> "createTransaction", tenant |-> h.tenant, user |-> h.user, id |-> i,
       type |-> b.type, quantity |-> b.quantity] :
        h \in Identities, i \in IdInputs, b \in TxnBodies }
SoftDeleteMaterialRequests ==
    { [op |-> "softDeleteMaterial", tenant |-> h.tenant, user |-> h.user, id |-> i] :
        h \in Identities, i \in IdInputs }
GetAnalyticsSummaryRequests ==
    { [op |-> "getAnalyticsSummary", tenant |-> h.tenant, user |-> h.user] :
        h \in Identities }

CreateTenantRequests ==
    { [op |-> "createTenant", name |-> n, plan |-> p, email |-> e, adminName |-> "root"] :
        n \in {"initech", "acme", "ab"}, p \in {"", "PRO", "GOLD"},
        e \in {"root@initech.io", "u1@acme.io", "root"} }

Requests ==
    CreateMaterialRequests \cup ListMaterialsRequests \cup GetMaterialByIdRequests
    \cup CreateTransactionRequests \cup SoftDeleteMaterialRequests
    \cup GetAnalyticsSummaryRequests

----------------------------------------------------------------------------
(* The seeded store: a FREE tenant with an ADMIN and a USER, a PRO tenant    *)
(* with its ADMIN, no material and no movement yet                           *)

Init ==
    /\ tenants = [t \in {"T1", "T2"} |->
                    [name |-> IF t = "T1" THEN "acme" ELSE "globex",
                     plan |-> IF t = "T1" THEN "FREE" ELSE "PRO"]]
    /\ users = [u \in {"U1", "U2", "U3"} |->
                  [tenantId |-> IF u = "U3" THEN "T2" ELSE "T1",
                   email    |-> IF u = "U1" THEN "u1@acme.io"
                                ELSE IF u = "U2" THEN "u2@acme.io" ELSE "u3@globex.io",
                   role     |-> IF u = "U2" THEN "USER" ELSE "ADMIN"]]
    /\ materials = << >>
    /\ transactions = << >>
    /\ clock = 0
    /\ pc  = [c \in Clients |-> "idle"]
    /\ req = [c \in Clients |-> NoReq]
    /\ ctx = [c \in Clients |-> NoCtx]
    /\ loc = [c \in Clients |-> NoLoc]
    /\ res = NoRes

\* res.json(...) has returned: the event loop takes its next callback
Finish ==
    /\ res # NoRes
    /\ res' = NoRes
    /\ UNCHANGED <<db, pc, req, ctx, loc>>

\* the request contexts the event loop can hand a new request to, and those it
\* can resume: none while a response is being sent
Receiving == IF res = NoRes THEN {c \in Clients : pc[c] = "idle"} ELSE {}
Resuming  == IF res = NoRes THEN {c \in Clients : pc[c] # "idle"} ELSE {}

\* The ledger of one tenant under concurrency: every client issues material
\* creations, movements and soft deletes as the ADMIN or the USER of tenant T1
LedgerRequests ==
    {q \in Requests : /\ q.op \in {"createMaterial", "createTransaction",
                                     "softDeleteMaterial"}
                      /\ q.tenant = "T1" /\ q.user \in {"U1", "U2"}}

Next ==
    \/ Finish
    \/ \E c \in Receiving, q \in LedgerRequests : Refused(c, q)
    \/ \E c \in Receiving, q \in LedgerRequests : CreateMaterial(c, q)
    \/ \E c \in Resuming : CreateMaterialInsert(c)
    \/ \E c \in Receiving, q \in LedgerRequests : CreateTransaction(c, q)
    \/ \E c \in Resuming : CommitTransaction(c)
    \/ \E c \in Receiving, q \in LedgerRequests : SoftDeleteMaterial(c, q)
    \/ \E c \in Resuming : SoftDeleteUpdate(c)
    \/ \E c \in Resuming : StoreFailure(c)

Spec == Init /\ [][Next]_vars

\* Every tenant-scoped route under every identity, one request at a time
First == CHOOSE c \in Clients : \A d \in Clients : c <= d

NextAccess ==
    \/ Finish
    \/ \E c \in Receiving \cap {First}, q \in Requests : Refused(c, q)
    \/ \E c \in Receiving \cap {First}, q \in Requests : CreateMaterial(c, q)
    \/ \E c \in Resuming \cap {First} : CreateMaterialInsert(c)
    \/ \E c \in Receiving \cap {First}, q \in Requests : ListMaterials(c, q)
    \/ \E c \in Receiving \cap {First}, q \in Requests : GetMaterialById(c, q)
    \/ \E c \in Receiving \cap {First}, q \in Requests : CreateTransaction(c, q)
    \/ \E c \in Resuming \cap {First} : CommitTransaction(c)
    \/ \E c \in Receiving \cap {First}, q \in Requests : SoftDeleteMaterial(c, q)
    \/ \E c \in Resuming \cap {First} : SoftDeleteUpdate(c)
    \/ \E c \in Receiving \cap {First}, q \in Requests : GetAnalyticsSummary(c, q)
    \/ \E c \in Resuming \cap {First} : AnalyticsTotalIn(c)
    \/ \E c \in Resuming \cap {First} : AnalyticsTotalOut(c)
    \/ \E c \in Resuming \cap {First} : StoreFailure(c)

SpecAccess == Init /\ [][NextAccess]_vars

\* The catalogue one request at a time: the ADMIN of the FREE tenant and the ADMIN
\* of the PRO tenant create materials under names not used before, and soft-delete
\* materials of the store
PlanAdmins == {[tenant |-> "T1", user |-> "U1"], [tenant |-> "T2", user |-> "U3"]}

PlanRequests ==
    { [op |-> "softDeleteMaterial", tenant |-> h.tenant, user |-> h.user, id |-> i] :
        h \in PlanAdmins, i \in MaterialIds }
    \cup
    { [op |-> "createMaterial", tenant |-> h.tenant, user |-> h.user,
       name |-> AllNames[Len(materials) + 1], unit |-> u] :
        h \in IF Len(materials) < MaxPlanMaterials THEN PlanAdmins ELSE {},
        u \in Units }

NextPlan ==
    \/ Finish
    \/ \E c \in Receiving \cap {First}, q \in PlanRequests : CreateMaterial(c, q)
    \/ \E c \in Resuming \cap {First} : CreateMaterialInsert(c)
    \/ \E c \in Receiving \cap {First}, q \in PlanRequests : SoftDeleteMaterial(c, q)
    \/ \E c \in Resuming \cap {First} : SoftDeleteUpdate(c)

SpecPlan == Init /\ [][NextPlan]_vars

\* Tenancy: every route, POST /tenants included, one request at a time. The
\* identities are those of the seeded store and the ADMIN of the tenant that
\* POST /tenants creates, whose ids are unknown to the store until then
CreatedAdmin == [tenant |-> TenantIdPool[3], user |-> UserIdPool[4]]

\* the tenant-scoped requests of the tenancy: those that name the material created
\* first, or no material
TenantScopedRequests ==
    {q \in Requests :
        q.op \in {"getMaterialById", "createTransaction", "softDeleteMaterial"}
        => q.id = 1}

TenancyRequests ==
    TenantScopedRequests
    \cup {[q EXCEPT !.tenant = CreatedAdmin.tenant, !.user = CreatedAdmin.user] :
             q \in {r \in TenantScopedRequests : r.tenant = "T1" /\ r.user = "U1"}}
    \cup CreateTenantRequests

NextTenancy ==
    \/ Finish
    \/ \E c \in Receiving \cap {First}, q \in TenancyRequests : CreateTenant(c, q)
    \/ \E c \in Resuming \cap {First} : CreateTenantInsert(c)
    \/ \E c \in Receiving \cap {First}, q \in TenancyRequests \ CreateTenantRequests :
          Refused(c, q)
    \/ \E c \in Receiving \cap {First}, q \in TenancyRequests : CreateMaterial(c, q)
    \/ \E c \in Resuming \cap {First} : CreateMaterialInsert(c)
    \/ \E c \in Receiving \cap {First}, q \in TenancyRequests : ListMaterials(c, q)
    \/ \E c \in Receiving \cap {First}, q \in TenancyRequests : GetMaterialById(c, q)
    \/ \E c \in Receiving \cap {First}, q \in TenancyRequests : CreateTransaction(c, q)
    \/ \E c \in Resuming \cap {First} : CommitTransaction(c)
    \/ \E c \in Receiving \cap {First}, q \in TenancyRequests : SoftDeleteMaterial(c, q)
    \/ \E c \in Resuming \cap {First} : SoftDeleteUpdate(c)
    \/ \E c \in Receiving \cap {First}, q \in TenancyRequests : GetAnalyticsSummary(c, q)
    \/ \E c \in Resuming \cap {First} : AnalyticsTotalIn(c)
    \/ \E c \in Resuming \cap {First} : AnalyticsTotalOut(c)
    \/ \E c \in Resuming \cap {First} : StoreFailure(c)

SpecTenancy == Init /\ [][NextTenancy]_vars

\* The catalogue of the FREE tenant under concurrency: its ADMIN creates materials,
\* each under a name that no row and no request in flight uses, and soft-deletes
\* materials of the store
CreatingMaterial == {c \in Clients : pc[c] = "cm_create"}

NamesInUse ==
    {materials[m].name : m \in MaterialIds} \cup {req[c].name : c \in CreatingMaterial}

UnusedNames == {i \in DOMAIN AllNames : AllNames[i] \notin NamesInUse}

PlanRaceRequests ==
    { [op |-> "softDeleteMaterial", tenant |-> "T1", user |-> "U1", id |-> i] :
        i \in MaterialIds }
    \cup
    { [op |-> "createMaterial", tenant |-> "T1", user |-> "U1",
       name |-> AllNames[i], unit |-> u] :
        i \in IF Len(materials) + Cardinality(CreatingMaterial) < MaxPlanMaterials
                THEN {j \in UnusedNames : \A k \in UnusedNames : j <= k} ELSE {},
        u \in Units }

NextPlanRace ==
    \/ Finish
    \/ \E c \in Receiving, q \in PlanRaceRequests : CreateMaterial(c, q)
    \/ \E c \in Resuming : CreateMaterialInsert(c)
    \/ \E c \in Receiving, q \in PlanRaceRequests : SoftDeleteMaterial(c, q)
    \/ \E c \in Resuming : SoftDeleteUpdate(c)

SpecPlanRace == Init /\ [][NextPlanRace]_vars

\* Material names under concurrency: the ADMINs of the two tenants create materials
\* under the same names and soft-delete materials
NameRequests ==
    {q \in Requests :
        /\ q.op \in {"createMaterial", "softDeleteMaterial"}
        /\ [tenant |-> q.tenant, user |-> q.user] \in PlanAdmins
        /\ q.op = "createMaterial" => q.name \in Names}

NextNames ==
    \/ Finish
    \/ \E c \in Receiving, q \in NameRequests : CreateMaterial(c, q)
    \/ \E c \in Resuming : CreateMaterialInsert(c)
    \/ \E c \in Receiving, q \in NameRequests : SoftDeleteMaterial(c, q)
    \/ \E c \in Resuming : SoftDeleteUpdate(c)
    \/ \E c \in Resuming : StoreFailure(c)

SpecNames == Init /\ [][NextNames]_vars

\* Movements on several materials under concurrency: the ADMINs of the two tenants
\* create up to MaxMovedMaterials materials, each under an unused name, and each
\* moves stock of the materials of its tenant and soft-deletes them
OwnRows(h) == {m \in MaterialIds : materials[m].tenantId = h.tenant}

ParallelRequests ==
    { [op |-> "createMaterial", tenant |-> h.tenant, user |-> h.user,
       name |-> AllNames[i], unit |-> u] :
        h \in PlanAdmins,
        i \in IF Len(materials) + Cardinality(CreatingMaterial) < MaxMovedMaterials
                THEN LET unused == UnusedNames
                     IN  {j \in unused : \A k \in unused : j <= k}
                ELSE {},
        u \in Units }
    \cup
    UNION { { [op |-> "createTransaction", tenant |-> h.tenant, user |-> h.user,
               id |-> i, type |-> b.type, quantity |-> b.quantity] :
                 i \in OwnRows(h), b \in {x \in TxnBodies : x.quantity > 0} } :
            h \in PlanAdmins }
    \cup
    UNION { { [op |-> "softDeleteMaterial", tenant |-> h.tenant, user |-> h.user,
               id |-> i] : i \in OwnRows(h) } : h \in PlanAdmins }

NextParallel ==
    \/ Finish
    \/ \E c \in Receiving, q \in ParallelRequests : CreateMaterial(c, q)
    \/ \E c \in Resuming : CreateMaterialInsert(c)
    \/ \E c \in Receiving, q \in ParallelRequests : CreateTransaction(c, q)
    \/ \E c \in Resuming : CommitTransaction(c)
    \/ \E c \in Receiving, q \in ParallelRequests : SoftDeleteMaterial(c, q)
    \/ \E c \in Resuming : SoftDeleteUpdate(c)
    \/ \E c \in Resuming : StoreFailure(c)

SpecParallel == Init /\ [][NextParallel]_vars

----------------------------------------------------------------------------
(* Properties of the ledger *)

TransactionsOf(m) == {t \in TxnIds : transactions[t].materialId = m}

RECURSIVE SignedSum(_)
SignedSum(S) ==
    IF S = {} THEN 0
    ELSE LET t == CHOOSE x \in S : TRUE
         IN  Signed(transactions[t]) + SignedSum(S \ {t})

\* the step commits the movement request context c is suspended with
Commits(c) ==
    pc[c] = "ct_commit" /\ pc'[c] = "idle" /\ Len(transactions') = Len(transactions) + 1

\* the step answers a request within the stretch that received it
AnswersOnArrival == res = NoRes /\ res' # NoRes /\ pc' = pc

\* C1: every material's currentStock equals the signed sum of its committed
\* Transaction rows (+quantity for IN, -quantity for OUT, 0 without rows).
StockEqualsLedgerSum ==
    \A m \in MaterialIds : materials[m].currentStock = SignedSum(TransactionsOf(m))

\* C2: movements on one material are serialized: when a movement commits, the
\* material's currentStock still is the pre value that movement read.
CommitsAgainstCurrentStock ==
    [][\A c \in Clients :
          Commits(c) => materials[req[c].id].currentStock = loc[c].preTransactionStock]_vars

\* C3: every material's currentStock is >= 0 and the signed sum of its
\* committed transactions is >= 0.
StockAndLedgerSumNonNegative ==
    \A m \in MaterialIds :
        materials[m].currentStock >= 0 /\ SignedSum(TransactionsOf(m)) >= 0

\* C4: the stock update and the Transaction insert of one movement become visible
\* in one step: in every state, also after a failed prisma.$transaction, a material
\* without rows has the stock it was created with and a material with rows has the
\* stock its latest row wrote, so no stock write lacks its row and no row its write.
LatestTransaction(m) ==
    transactions[CHOOSE t \in TransactionsOf(m) : \A u \in TransactionsOf(m) : u <= t]

StockWriteAndRowPaired ==
    \A m \in MaterialIds :
        IF TransactionsOf(m) = {}
          THEN materials[m].currentStock = 0
          ELSE materials[m].currentStock =
                 LatestTransaction(m).preTransactionStock + Signed(LatestTransaction(m))

\* a movement failed in the store after another one had committed
FailedMovementWitness ==
    /\ res # NoRes
    /\ res.req.op = "createTransaction"
    /\ res.body = InternalServerError
    /\ transactions # << >>

\* C5: an OUT movement whose quantity exceeds the currentStock it reads is answered
\* with the insufficient-stock error and leaves every table as it was; it never
\* reaches the commit.
InsufficientOutRejected ==
    [][/\ \A c \in Clients :
            (pc[c] = "idle" /\ pc'[c] = "ct_commit")
            => ~(req'[c].type = "OUT"
                 /\ req'[c].quantity > materials[req'[c].id].currentStock)
       /\ (/\ AnswersOnArrival
           /\ res'.req.op = "createTransaction"
           /\ Admitted(res'.req) /\ res'.req.quantity > 0
           /\ res'.req.id \in MaterialIds
           /\ materials[res'.req.id].tenantId = res'.req.tenant
           /\ materials[res'.req.id].deletedAt = {}
           /\ res'.req.type = "OUT"
           /\ res'.req.quantity > materials[res'.req.id].currentStock)
          => /\ res'.body.status = 400
             /\ res'.body.error = "Insufficient Stock"
             /\ res'.body.available = materials[res'.req.id].currentStock
             /\ res'.body.unit = materials[res'.req.id].unit
             /\ res'.body.requested = res'.req.quantity
             /\ materials' = materials /\ transactions' = transactions]_vars

\* an OUT movement was rejected on a material whose stock is positive and below
\* the quantity asked
InsufficientOutWitness ==
    /\ res # NoRes
    /\ res.req.op = "createTransaction" /\ res.req.type = "OUT"
    /\ res.body.error = "Insufficient Stock"
    /\ res.body.requested > res.body.available
    /\ res.body.available > 0

\* C6: no Transaction row is committed for a material that is soft-deleted at the
\* commit, and the currentStock of a soft-deleted material never changes.
NoMovementOnDeletedMaterial ==
    [][/\ \A c \in Clients : Commits(c) => ~IsDeleted(req[c].id)
       /\ \A m \in MaterialIds :
            IsDeleted(m) => materials'[m].currentStock = materials[m].currentStock]_vars

----------------------------------------------------------------------------
(* Properties of access control and of the plan limit *)

RowsOf(tenantId) == {m \in MaterialIds : materials[m].tenantId = tenantId}

LiveRowsOf(tenantId) == {m \in RowsOf(tenantId) : materials[m].deletedAt = {}}

\* the identity of q names a tenant of the store and a user of that tenant
Authenticated(q) ==
    /\ q.tenant \in DOMAIN tenants
    /\ q.user \in DOMAIN users /\ users[q.user].tenantId = q.tenant

\* why the store shows tenant q.tenant no material q.id ("none" when it does)
Cause(q) ==
    IF q.id \notin MaterialIds THEN "absent"
    ELSE IF materials[q.id].tenantId # q.tenant THEN "foreign"
    ELSE IF materials[q.id].deletedAt # {} THEN "deleted"
    ELSE "none"

\* q reaches the material lookup of its handler
ReachesLookup(q) ==
    /\ Authenticated(q)
    /\ q.op \in {"createTransaction", "getMaterialById", "softDeleteMaterial"}
    /\ q.op = "softDeleteMaterial" => users[q.user].role = "ADMIN"
    /\ q.op = "createTransaction" => q.quantity > 0

\* quantities of the Transaction rows of a type whose material is a row of the tenant
RECURSIVE QuantityOfRows(_, _, _)
QuantityOfRows(tenantId, type, n) ==
    IF n = 0 THEN 0
    ELSE QuantityOfRows(tenantId, type, n - 1)
         + IF transactions[n].type = type /\ transactions[n].materialId \in RowsOf(tenantId)
             THEN transactions[n].quantity ELSE 0

\* what a 200 answer of a read carries, all of it from rows of the asking tenant
ReadsOwnRowsOnly ==
    (res # NoRes /\ res.body.status = 200) =>
        /\ res.req.op = "listMaterials" =>
             /\ \A i \in DOMAIN res.body.materials :
                    /\ res.body.materials[i].id \in LiveRowsOf(res.req.tenant)
                    /\ res.body.materials[i].row = materials[res.body.materials[i].id]
        /\ res.req.op = "getMaterialById" =>
             /\ res.body.material.id \in LiveRowsOf(res.req.tenant)
             /\ res.body.material.row = materials[res.body.material.id]
             /\ \A i \in DOMAIN res.body.transactions :
                    /\ res.body.transactions[i].row.tenantId = res.req.tenant
                    /\ res.body.transactions[i].row.materialId \in RowsOf(res.req.tenant)
        /\ res.req.op = "getAnalyticsSummary" =>
             /\ res.body.tenantId = res.req.tenant
             /\ res.body.materialCount = Cardinality(LiveRowsOf(res.req.tenant))
             /\ res.body.totalQuantityIn =
                    QuantityOfRows(res.req.tenant, "IN", Len(transactions))
             /\ res.body.totalQuantityOut =
                    QuantityOfRows(res.req.tenant, "OUT", Len(transactions))

\* C7: tenant isolation. (1) listMaterials, getMaterialById and the analytics
\* summary return only data of rows of the asking tenant; (2) createTransaction and
\* softDeleteMaterial on a material of another tenant answer not-found, change no
\* row and never reach their write; (3) every Transaction row carries the tenantId
\* of the material it references.
TenantIsolation ==
    /\ [](/\ ReadsOwnRowsOnly
          /\ \A t \in TxnIds :
                transactions[t].tenantId = materials[transactions[t].materialId].tenantId
          /\ \A c \in Clients :
                pc[c] \in {"ct_commit", "sd_update"}
                => materials[req[c].id].tenantId = req[c].tenant)
    /\ [][(/\ AnswersOnArrival
           /\ res'.req.op \in {"createTransaction", "softDeleteMaterial"}
           /\ ReachesLookup(res'.req)
           /\ Cause(res'.req) = "foreign")
          => /\ res'.body.status = 404 /\ res'.body.error = "Not Found"
             /\ materials' = materials /\ transactions' = transactions]_vars

\* a movement on a live material of another tenant was answered not-found
ForeignMovementWitness ==
    /\ res # NoRes
    /\ res.req.op = "createTransaction"
    /\ res.body.status = 404
    /\ Authenticated(res.req) /\ res.req.quantity > 0
    /\ res.req.id \in MaterialIds
    /\ materials[res.req.id].tenantId # res.req.tenant
    /\ materials[res.req.id].deletedAt = {}

\* the not-found answer of each handler
NotFoundOf(op) ==
    [status |-> 404, error |-> "Not Found",
     message |-> IF op = "softDeleteMaterial"
                   THEN "Material not found or already deleted."
                   ELSE "Material not found or does not belong to your tenant."]

\* C8: createTransaction, getMaterialById and softDeleteMaterial answer a material
\* that does not exist, one of another tenant and a soft-deleted one with the same
\* response, which depends on the operation alone; none of the three goes on to a
\* write.
NotFoundIndistinguishable ==
    [][/\ (/\ AnswersOnArrival
           /\ ReachesLookup(res'.req)
           /\ Cause(res'.req) \in {"absent", "foreign", "deleted"})
          => res'.body = NotFoundOf(res'.req.op)
       /\ \A c \in Clients :
            (pc[c] = "idle" /\ pc'[c] \in {"ct_commit", "sd_update"})
            => Cause(req'[c]) = "none"
       /\ (/\ AnswersOnArrival
           /\ ReachesLookup(res'.req)
           /\ res'.req.op = "getMaterialById"
           /\ Cause(res'.req) = "none")
          => res'.body.status = 200]_vars

\* a lookup of a soft-deleted material of the asking tenant was answered not-found
DeletedLookupWitness ==
    /\ res # NoRes
    /\ res.req.op = "getMaterialById"
    /\ Authenticated(res.req)
    /\ res.body = NotFoundOf("getMaterialById")
    /\ res.req.id \in RowsOf(res.req.tenant)
    /\ materials[res.req.id].deletedAt # {}

\* the step receives a createMaterial request q and takes it to its first await
\* or answers it
ReceivesCreateMaterial(q) ==
    /\ q.op = "createMaterial"
    /\ \/ AnswersOnArrival /\ res'.req = q
       \/ \E c \in Clients : pc[c] = "idle" /\ pc'[c] = "cm_create" /\ req'[c] = q

\* C9: createMaterial requests issued one after another under unused names. For a
\* FREE tenant the request is rejected with the plan-limit error, creating nothing,
\* when the tenant has 5 or more non-deleted materials, and otherwise creates the
\* material; soft-deleted materials do not count. A PRO tenant is never rejected.
PlanLimitOneAtATime ==
    [][/\ \A q \in PlanRequests :
            ReceivesCreateMaterial(q) =>
                IF tenants[q.tenant].plan = "FREE"
                   /\ Cardinality(LiveRowsOf(q.tenant)) >= 5
                  THEN /\ res' # NoRes
                       /\ res'.body.status = 403
                       /\ res'.body.error = "Plan Limit Exceeded"
                       /\ materials' = materials
                       /\ pc' = pc
                  ELSE res' = NoRes
       /\ \A c \in Clients :
            pc[c] = "cm_create" =>
                /\ res' # NoRes
                /\ res'.body.status = 201
                /\ Len(materials') = Len(materials) + 1
                /\ materials'[Len(materials')].tenantId = req[c].tenant
                /\ materials'[Len(materials')].name = req[c].name
                /\ materials'[Len(materials')].deletedAt = {}]_vars

\* the FREE tenant created a sixth material after one of its five was soft-deleted
SixthAfterDeleteWitness ==
    /\ res # NoRes
    /\ res.req.op = "createMaterial" /\ res.req.tenant = "T1"
    /\ res.body.status = 201
    /\ Cardinality(RowsOf("T1")) = 6
    /\ Cardinality(LiveRowsOf("T1")) = 5

\* C10: createMaterial and softDeleteMaterial asked by a user who is not ADMIN are
\* answered with the authorization error whatever the body and the material, change
\* nothing and never reach a store call of the handler; createTransaction is never
\* answered with the authorization error.
AdminOnlyWrites ==
    [][/\ (/\ res' # NoRes /\ res = NoRes
           /\ res'.req.op \in {"createMaterial", "softDeleteMaterial"}
           /\ Authenticated(res'.req)
           /\ users[res'.req.user].role # "ADMIN")
          => /\ res'.body.status = 403
             /\ res'.body.error = "Authorization Required"
             /\ pc' = pc
             /\ materials' = materials /\ transactions' = transactions
       /\ \A c \in Clients :
            (pc[c] = "idle" /\ pc'[c] \in {"cm_create", "sd_update"})
            => users[req'[c].user].role = "ADMIN"
       /\ (res' # NoRes /\ res'.req.op = "createTransaction")
          => res'.body.error # "Authorization Required"
       /\ \A c \in Clients :
            (pc[c] = "ct_commit" /\ users[req[c].user].role = "USER" /\ Commits(c))
            => res'.body.status = 201]_vars

\* a USER asked to create a material with a malformed body and was denied
UserDeniedBeforeValidationWitness ==
    /\ res # NoRes
    /\ res.req.op = "createMaterial" /\ res.req.name = ""
    /\ Authenticated(res.req) /\ users[res.req.user].role = "USER"
    /\ res.body.error = "Authorization Required"

----------------------------------------------------------------------------
(* Properties of the soft delete and of the transaction log *)

\* the step is the successful update of the soft delete of request context c
SoftDeletes(c) ==
    pc[c] = "sd_update" /\ pc'[c] = "idle" /\ res' # NoRes /\ res'.body.status = 200

DeletedStaysHidden ==
    [][/\ \A m \in MaterialIds :
            IsDeleted(m) =>
                /\ m <= Len(materials') /\ materials'[m].deletedAt # {}
                /\ \A t \in TransactionsOf(m) :
                       t <= Len(transactions') /\ transactions'[t] = transactions[t]
       /\ (/\ AnswersOnArrival
           /\ res'.req.op = "getMaterialById"
           /\ Authenticated(res'.req)
           /\ res'.req.id \in MaterialIds /\ IsDeleted(res'.req.id))
          => res'.body.status = 404 /\ res'.body.error = "Not Found"
       /\ (/\ AnswersOnArrival
           /\ res'.req.op = "listMaterials"
           /\ res'.body.status = 200)
          => \A i \in DOMAIN res'.body.materials :
                 ~IsDeleted(res'.body.materials[i].id)]_vars

\* listMaterials answered a tenant whose material with movements is soft-deleted
ListAfterSoftDeleteWitness ==
    /\ res # NoRes
    /\ res.req.op = "listMaterials" /\ res.body.status = 200
    /\ \E m \in RowsOf(res.req.tenant) : IsDeleted(m) /\ TransactionsOf(m) # {}

\* C13: the transaction log is append-only. Every step, whatever the route, keeps
\* every committed Transaction row in place with all its fields, and every
\* committed row has a type in {IN, OUT} and a quantity > 0.
LogAppendOnly ==
    /\ [](\A t \in TxnIds :
              transactions[t].type \in {"IN", "OUT"} /\ transactions[t].quantity > 0)
    /\ [][/\ Len(transactions') >= Len(transactions)
           /\ \A t \in TxnIds : transactions'[t] = transactions[t]]_vars

\* a tenant was created after an IN and an OUT were committed on a material that
\* has since been soft-deleted
TenantCreatedOverLogWitness ==
    /\ res # NoRes
    /\ res.req.op = "createTenant" /\ res.body.status = 201
    /\ \E t, u \in TxnIds : transactions[t].type = "IN" /\ transactions[u].type = "OUT"
    /\ \E m \in MaterialIds : IsDeleted(m) /\ TransactionsOf(m) # {}

\* C14: a movement (type, quantity) that finds the material with stock pre and
\* succeeds answers 201 with the material's id and currentStock = pre + quantity for
\* IN, pre - quantity for OUT, and with the Transaction row created, which has that
\* type, that quantity and preTransactionStock = pre; the stock stored for the
\* material when the answer is sent is the currentStock returned.
MovementResult ==
    [][\A c \in Clients :
          /\ (pc[c] = "idle" /\ pc'[c] = "ct_commit")
             => loc'[c].preTransactionStock = materials[req'[c].id].currentStock
          /\ Commits(c)
             => LET pre == loc[c].preTransactionStock
                    q   == req[c]
                IN  /\ res'.body.status = 201
                    /\ res'.body.material.id = q.id
                    /\ res'.body.material.currentStock =
                          IF q.type = "IN" THEN pre + q.quantity ELSE pre - q.quantity
                    /\ res'.body.transaction.id = Len(transactions')
                    /\ res'.body.transaction.row = transactions'[Len(transactions')]
                    /\ res'.body.transaction.row.materialId = q.id
                    /\ res'.body.transaction.row.type = q.type
                    /\ res'.body.transaction.row.quantity = q.quantity
                    /\ res'.body.transaction.row.preTransactionStock = pre
                    /\ materials'[q.id].currentStock = res'.body.material.currentStock]_vars

\* an OUT of one unit on a stock of two units was answered with a stock of one unit
OutMovementResultWitness ==
    /\ res # NoRes
    /\ res.req.op = "createTransaction" /\ res.body.status = 201
    /\ res.req.type = "OUT" /\ res.req.quantity < res.body.transaction.row.preTransactionStock
    /\ res.body.material.currentStock > 0
    /\ materials[res.req.id].currentStock = res.body.material.currentStock

----------------------------------------------------------------------------
(* Properties of the tenancy *)

\* C15: the analytics summary is answered only to a tenant whose Tenant row has the
\* plan PRO when the request is served; under any other plan the request is
\* answered with the plan-restriction error, runs no aggregate and changes nothing.
AnalyticsProOnly ==
    /\ []((res # NoRes /\ res.req.op = "getAnalyticsSummary" /\ res.body.status = 200)
           => tenants[res.req.tenant].plan = "PRO")
    /\ [][/\ (/\ AnswersOnArrival
               /\ res'.req.op = "getAnalyticsSummary"
               /\ Authenticated(res'.req))
              => /\ tenants[res'.req.tenant].plan # "PRO"
                 /\ res'.body.status = 403 /\ res'.body.error = "Plan Restricted"
                 /\ db' = db
           /\ \A c \in Clients :
                (pc[c] = "idle" /\ pc'[c] = "an_in")
                => tenants[req'[c].tenant].plan = "PRO"]_vars

\* the tenant created without a plan, FREE by default, was denied the summary
CreatedFreeTenantDeniedWitness ==
    /\ res # NoRes
    /\ res.req.op = "getAnalyticsSummary"
    /\ res.req.tenant = CreatedAdmin.tenant /\ res.req.user = CreatedAdmin.user
    /\ res.body = PlanRestricted
    /\ tenants[res.req.tenant].plan = "FREE"

TenantScoped(op) == op # "createTenant"

\* C16: a tenant-scoped request whose headers do not name a tenant of the store and
\* a user of that tenant is answered by the middleware (401 for a missing header,
\* 404 for an unknown tenant, 403 for a user that is not of the tenant) without any
\* change of the store, and no handler of a tenant-scoped route runs, suspends or
\* answers 200 or 201 for such a request.
TenantScopedNeedsIdentity ==
    /\ [](/\ \A c \in Clients :
                (pc[c] # "idle" /\ TenantScoped(req[c].op)) => Authenticated(req[c])
          /\ (res # NoRes /\ TenantScoped(res.req.op) /\ ~Authenticated(res.req))
             => res.body.status \in {401, 403, 404})
    /\ [][(/\ res = NoRes /\ res' # NoRes
           /\ TenantScoped(res'.req.op)
           /\ ~Authenticated(res'.req))
          => /\ pc' = pc /\ db' = db
             /\ res'.body =
                   IF res'.req.tenant = "" \/ res'.req.user = ""
                     THEN AuthenticationRequired
                   ELSE IF res'.req.tenant \notin DOMAIN tenants THEN TenantNotFound
                   ELSE UserAccessDenied]_vars

\* the ADMIN of another tenant asked for a movement in the created tenant, whose id
\* the store now knows, and was denied
ForeignUserOfCreatedTenantWitness ==
    /\ res # NoRes
    /\ res.req.op = "createTransaction"
    /\ res.req.tenant = CreatedAdmin.tenant /\ res.req.tenant \in DOMAIN tenants
    /\ res.req.user = "U1"
    /\ res.body = UserAccessDenied
    /\ materials # << >>

----------------------------------------------------------------------------
(* Properties of concurrent requests *)

\* the Transaction row committed for the same material just before row t, if any
PreviousOf(t) ==
    {u \in TransactionsOf(transactions[t].materialId) :
        /\ u < t
        /\ \A v \in TransactionsOf(transactions[t].materialId) : v < t => v <= u}

\* C17: audit chain. For every material, in commit order, the first Transaction
\* row has preTransactionStock 0 and every later row has the preTransactionStock of
\* the row before it plus that row's signed quantity.
AuditChain ==
    \A t \in TxnIds :
        IF PreviousOf(t) = {}
          THEN transactions[t].preTransactionStock = 0
          ELSE \A u \in PreviousOf(t) :
                  transactions[t].preTransactionStock =
                      transactions[u].preTransactionStock + Signed(transactions[u])

\* C18: a tenant whose plan is FREE never has more than 5 non-deleted materials,
\* also when createMaterial requests of that tenant run concurrently.
FreePlanCeiling ==
    \A t \in DOMAIN tenants :
        tenants[t].plan = "FREE" => Cardinality(LiveRowsOf(t)) <= 5

\* C19: of the softDeleteMaterial requests on one material only one succeeds: no
\* soft delete succeeds on a material that is soft-deleted already, and once
\* deletedAt of a material is set no step changes its value.
SoftDeleteOnce ==
    [][/\ \A c \in Clients : SoftDeletes(c) => ~IsDeleted(req[c].id)
       /\ \A m \in MaterialIds :
            IsDeleted(m) => materials'[m].deletedAt = materials[m].deletedAt]_vars

\* the step resolves the insert of the createMaterial request of context c
ResolvesInsert(c) ==
    pc[c] = "cm_create" /\ pc'[c] = "idle" /\ res'.body # InternalServerError

\* C20: no two Material rows of one tenant have the same name, soft-deleted rows
\* included. A createMaterial that reaches its insert under a name some row of the
\* tenant has, soft-deleted or not, is answered with the conflict error and creates
\* nothing, also when the row was inserted by a concurrent request; under a name
\* that only rows of other tenants have it creates the material.
NamesUniquePerTenant ==
    /\ [](\A m, n \in MaterialIds :
              (m # n /\ materials[m].tenantId = materials[n].tenantId)
              => materials[m].name # materials[n].name)
    /\ [][\A c \in Clients :
              ResolvesInsert(c) =>
                  IF \E m \in RowsOf(req[c].tenant) : materials[m].name = req[c].name
                    THEN /\ res'.body.status = 409 /\ res'.body.error = "Conflict"
                         /\ materials' = materials
                    ELSE /\ res'.body.status = 201
                         /\ Len(materials') = Len(materials) + 1
                         /\ materials'[Len(materials')].tenantId = req[c].tenant
                         /\ materials'[Len(materials')].name = req[c].name]_vars

\* a name was refused to a tenant whose only row of that name is soft-deleted, while
\* a row of another tenant has the same name
ConflictWithDeletedRowWitness ==
    /\ res # NoRes
    /\ res.req.op = "createMaterial" /\ res.body.status = 409
    /\ \A m \in RowsOf(res.req.tenant) : IsDeleted(m)
    /\ \E m \in RowsOf(res.req.tenant) : materials[m].name = res.req.name
    /\ \E m \in MaterialIds :
          materials[m].tenantId # res.req.tenant /\ materials[m].name = res.req.name

\* C21: a movement on material M changes M's currentStock and nothing else of the
\* Material table, and appends one Transaction row, for M, to the log; a step that
\* commits no movement on M leaves M's currentStock and M's rows as they are. So in
\* every interleaving the stock of each material is the one its own latest row
\* wrote, whatever was committed on other materials in between, and a movement
\* suspended at its commit can always commit: it waits for no other request.
MovementsIndependent ==
    /\ [](/\ \A c \in Clients :
                (res = NoRes /\ pc[c] = "ct_commit") => ENABLED CommitTransaction(c)
          /\ \A m \in MaterialIds :
                materials[m].currentStock =
                    IF TransactionsOf(m) = {} THEN 0
                    ELSE LET last == CHOOSE t \in TransactionsOf(m) :
                                         \A u \in TransactionsOf(m) : u <= t
                         IN  transactions[last].preTransactionStock
                             + Signed(transactions[last]))
    /\ [][/\ \A c \in Clients :
               Commits(c) =>
                   /\ Len(materials') = Len(materials)
                   /\ \A n \in MaterialIds \ {req[c].id} : materials'[n] = materials[n]
                   /\ materials'[req[c].id] =
                         [materials[req[c].id] EXCEPT
                            !.currentStock = materials'[req[c].id].currentStock]
                   /\ transactions' =
                         Append(transactions, transactions'[Len(transactions')])
                   /\ transactions'[Len(transactions')].materialId = req[c].id
          /\ \A m \in MaterialIds :
               (~ \E c \in Clients : Commits(c) /\ req[c].id = m)
               => /\ materials'[m].currentStock = materials[m].currentStock
                  /\ \A t \in 1..Len(transactions') :
                         transactions'[t].materialId = m => t \in TransactionsOf(m)]_vars

\* a movement was committed on one material while a movement on another material
\* of the same tenant, stocked before, was suspended at its commit
ParallelMovementsWitness ==
    /\ res # NoRes
    /\ res.req.op = "createTransaction" /\ res.body.status = 201
    /\ \E d \in Clients :
          /\ pc[d] = "ct_commit"
          /\ req[d].id # res.req.id /\ req[d].tenant = res.req.tenant
          /\ materials[req[d].id].currentStock = loc[d].preTransactionStock
          /\ materials[req[d].id].currentStock > 0

====
